---- MODULE Spec2Model ----
(***************************************************************************)
(* Model of menus/menu_pool.py: the tree assembler                         *)
(* (_build_nodes_inner_for_whole_menu), the per-request MenuRenderer       *)
(* (cache key, cached build, selection marking, modifiers) and the         *)
(* process-wide MenuPool (registry, cache invalidation).                   *)
(***************************************************************************)
EXTENDS Integers, Sequences, FiniteSets, TLC

VARIABLES
    content,    \* what the sources currently produce: <<namespace, id>> -> node
    asm,        \* result of the last direct call of the assembler
    pool,       \* the MenuPool: menus, modifiers, discovered
    renderers,  \* the live MenuRenderer of each request slot
    cache,      \* the fast cache store: key -> stored tree
    index,      \* the persisted CacheKey records
    last,       \* what the last call did and returned
    nreq,       \* number of requests served so far
    threads     \* where each request-handling thread is in discover_menus

vars == <<content, asm, pool, renderers, cache, index, last, nreq, threads>>

----------------------------------------------------------------------------
(* Bounds *)

MaxId == 3          \* node ids are 1..MaxId; parent ids reach MaxId + 1
MaxNodes == 3       \* nodes in an input collection
MaxExplicit == 1    \* nodes with an explicit namespace or parent namespace
MaxRequests == 2    \* requests (renderers) constructed in one behaviour
MaxThreads == 2     \* request-handling threads using the pool

----------------------------------------------------------------------------
(* Values *)

None == "None"
NoId == 0
NoNode == <<None, NoId>>

\* ROOT_NODES = None: the key of the root list in the assembled collection
ROOT_NODES == None

\* Registered sources in registration order; a source's name is the
\* namespace its nodes are stored under.
Namespaces == <<"A", "B">>

NamespaceSet == {Namespaces[i] : i \in 1..Len(Namespaces)}

NodeIds == 1..MaxId
ParentIds == 0..(MaxId + 1)
Slots == NamespaceSet \X NodeIds

\* NavigationNode as the sources hand it over: children = [], parent = None
NavigationNode(ns, pid, pns) ==
    [namespace |-> ns, parent_id |-> pid, parent_namespace |-> pns]

PlainNodes == {NavigationNode(None, pid, None) : pid \in ParentIds}

ExplicitNodes ==
    {NavigationNode(ns, pid, pns) :
        ns \in NamespaceSet \cup {None}, pid \in ParentIds,
        pns \in NamespaceSet \cup {None}} \ PlainNodes

\* A node is stored consistently when its own namespace is unset or is the
\* key it is stored under.
StoredUnderOwnNamespace(c) ==
    \A s \in DOMAIN c : c[s].namespace \in {None, s[1]}

Merge(f, g) ==
    [s \in DOMAIN f \cup DOMAIN g |-> IF s \in DOMAIN f THEN f[s] ELSE g[s]]

\* c is a namespace-keyed collection within the bounds: at most MaxNodes
\* nodes, at most MaxExplicit of them with an explicit namespace field.
BoundedCollection(c) ==
    \E D \in SUBSET Slots :
        /\ Cardinality(D) <= MaxNodes
        /\ \E E \in SUBSET D :
              /\ Cardinality(E) <= MaxExplicit
              /\ \E f \in [D \ E -> PlainNodes], g \in [E -> ExplicitNodes] :
                    c = Merge(f, g)

----------------------------------------------------------------------------
(* Sequence helpers *)

Range(s) == {s[i] : i \in 1..Len(s)}

Min(S) == CHOOSE x \in S : \A y \in S : x <= y

NoDuplicates(s) == \A i \in 1..Len(s) : \A j \in 1..Len(s) :
    s[i] = s[j] => i = j

RECURSIVE Ascending(_)
Ascending(S) ==
    IF S = {} THEN <<>>
    ELSE <<Min(S)>> \o Ascending(S \ {Min(S)})

RECURSIVE Flatten(_)
Flatten(ss) ==
    IF ss = <<>> THEN <<>> ELSE Head(ss) \o Flatten(Tail(ss))

Perms(S) ==
    {p \in [1..Cardinality(S) -> S] : \A x \in S : \E i \in DOMAIN p : p[i] = x}

\* dict iteration: nodes.items() then inner_nodes.items(); namespaces in
\* first-insertion (registration) order, ids in insertion order.
Items(dom, order) ==
    Flatten([i \in 1..Len(order) |->
        LET ids == Ascending({s[2] : s \in {t \in dom : t[1] = order[i]}})
        IN  [j \in 1..Len(ids) |-> <<order[i], ids[j]>>]])

----------------------------------------------------------------------------
(* NavigationNode capabilities (menus.base) *)

\* node.get_descendants(): every node of the subtree below n, n excluded,
\* following the child lists. fuel bounds the recursion depth; a traversal
\* that exhausts it is on a parent/child cycle and does not return.
RECURSIVE get_descendants(_, _, _)
get_descendants(children, n, fuel) ==
    IF fuel = 0 THEN <<>>
    ELSE Flatten([i \in 1..Len(children[n]) |->
            <<children[n][i]>> \o
            get_descendants(children, children[n][i], fuel - 1)])

\* node.get_ancestors(): the chain from the parent to the root, nearest first.
RECURSIVE get_ancestors(_, _, _)
get_ancestors(parent, n, fuel) ==
    IF fuel = 0 \/ parent[n] = NoNode THEN <<>>
    ELSE <<parent[n]>> \o get_ancestors(parent, parent[n], fuel - 1)

\* The traversal from n along the child lists never returns.
RECURSIVE DescendsForever(_, _, _)
DescendsForever(children, n, fuel) ==
    IF fuel = 0 THEN TRUE
    ELSE \E i \in 1..Len(children[n]) :
            DescendsForever(children, children[n][i], fuel - 1)

\* The traversal from n along the parent references never returns.
RECURSIVE AscendsForever(_, _, _)
AscendsForever(parent, n, fuel) ==
    IF parent[n] = NoNode THEN FALSE
    ELSE IF fuel = 0 THEN TRUE
    ELSE AscendsForever(parent, parent[n], fuel - 1)

----------------------------------------------------------------------------
(* _build_nodes_inner_for_whole_menu *)

\* State of the objects when the function starts: the dict `nodes` holds the
\* slots of c; every node has parent = None and children = [].
StartAssembly(c) ==
    [nodes            |-> DOMAIN c,
     parent_id        |-> [s \in DOMAIN c |-> c[s].parent_id],
     namespace        |-> [s \in DOMAIN c |-> c[s].namespace],
     parent_namespace |-> [s \in DOMAIN c |-> c[s].parent_namespace],
     parent           |-> [s \in DOMAIN c |-> NoNode],
     children         |-> [s \in DOMAIN c |-> <<>>],
     to_delete        |-> {},
     root_nodes       |-> <<>>,
     raised           |-> FALSE,
     diverged         |-> FALSE]

\* node.namespace or namespace
Or(a, b) == IF a # None THEN a ELSE b

\* f with the field of node n set to v
Set(f, n, v) == [s \in DOMAIN f |-> IF s = n THEN v ELSE f[s]]

\* Mutation of the loop body: a parent id that the node's own namespace
\* lacks is looked up in the other namespaces too.
LinkNode_any_namespace(st, s) ==
    LET namespace == s[1]
        own       == <<Or(st.namespace[s], namespace), st.parent_id[s]>>
        others    == {t \in st.nodes : t[2] = st.parent_id[s]}
        lookup    == IF own \in st.nodes \/ others = {} THEN own
                     ELSE CHOOSE t \in others : TRUE
    IN  IF lookup \in st.nodes
        THEN [st EXCEPT
                !.parent_namespace =
                    Set(st.parent_namespace, s,
                        Or(st.parent_namespace[s], namespace)),
                !.children =
                    Set(st.children, lookup, Append(st.children[lookup], s)),
                !.parent = Set(st.parent, s, lookup)]
        ELSE IF st.parent_id[s] # NoId
        THEN [st EXCEPT
                !.namespace =
                    Set(st.namespace, s, Or(st.namespace[s], namespace)),
                !.to_delete = st.to_delete \cup {s}]
        ELSE [st EXCEPT !.root_nodes = Append(st.root_nodes, s)]

\* Mutation of the loop body: a root is put at the front of the root list.
LinkNode_roots_in_front(st, s) ==
    LET namespace == s[1]
        lookup    == <<Or(st.namespace[s], namespace), st.parent_id[s]>>
    IN  IF lookup \in st.nodes
        THEN [st EXCEPT
                !.parent_namespace =
                    Set(st.parent_namespace, s,
                        Or(st.parent_namespace[s], namespace)),
                !.children =
                    Set(st.children, lookup, Append(st.children[lookup], s)),
                !.parent = Set(st.parent, s, lookup)]
        ELSE IF st.parent_id[s] # NoId
        THEN [st EXCEPT
                !.namespace =
                    Set(st.namespace, s, Or(st.namespace[s], namespace)),
                !.to_delete = st.to_delete \cup {s}]
        ELSE [st EXCEPT !.root_nodes = <<s>> \o st.root_nodes]

\* Mutation of the loop body: a node found to be its own parent is linked
\* and also put in to_delete.
LinkNode_self_parent_deleted(st, s) ==
    LET namespace == s[1]
        lookup    == <<Or(st.namespace[s], namespace), st.parent_id[s]>>
    IN  IF lookup \in st.nodes
        THEN [st EXCEPT
                !.parent_namespace =
                    Set(st.parent_namespace, s,
                        Or(st.parent_namespace[s], namespace)),
                !.children =
                    Set(st.children, lookup, Append(st.children[lookup], s)),
                !.parent = Set(st.parent, s, lookup),
                !.to_delete = IF lookup = s THEN st.to_delete \cup {s}
                              ELSE st.to_delete]
        ELSE IF st.parent_id[s] # NoId
        THEN [st EXCEPT
                !.namespace =
                    Set(st.namespace, s, Or(st.namespace[s], namespace)),
                !.to_delete = st.to_delete \cup {s}]
        ELSE [st EXCEPT !.root_nodes = Append(st.root_nodes, s)]

\* One iteration of the loop body for the node stored at slot s.
LinkNode(st, s) ==
    LET namespace == s[1]
        lookup    == <<Or(st.namespace[s], namespace), st.parent_id[s]>>
    IN  IF lookup \in st.nodes
        THEN [st EXCEPT
                !.parent_namespace =
                    Set(st.parent_namespace, s,
                        Or(st.parent_namespace[s], namespace)),
                !.children =
                    Set(st.children, lookup, Append(st.children[lookup], s)),
                !.parent = Set(st.parent, s, lookup)]
        ELSE IF st.parent_id[s] # NoId
        THEN [st EXCEPT
                !.namespace =
                    Set(st.namespace, s, Or(st.namespace[s], namespace)),
                !.to_delete = st.to_delete \cup {s}]
        ELSE [st EXCEPT !.root_nodes = Append(st.root_nodes, s)]

\* for namespace, inner_nodes in nodes.items(): for node_id, node in ...
RECURSIVE LinkAll(_, _)
LinkAll(st, items) ==
    IF items = <<>> THEN st
    ELSE LinkAll(LinkNode(st, Head(items)), Tail(items))

\* The slot `del nodes[desc.namespace or namespace][desc.id]` addresses.
DeleteTarget(st, desc, namespace) ==
    <<Or(st.namespace[desc], namespace), desc[2]>>

\* for desc in node.get_descendants() + [node]: unlink and delete. A missing
\* entry raises KeyError, which ends the function.
RECURSIVE DeleteEach(_, _, _)
DeleteEach(st, descs, namespace) ==
    IF descs = <<>> \/ st.raised THEN st
    ELSE LET desc   == Head(descs)
             target == DeleteTarget(st, desc, namespace)
             unlinked == [st EXCEPT
                            !.parent = Set(st.parent, desc, NoNode),
                            !.children = Set(st.children, desc, <<>>)]
         IN  IF target \in st.nodes
             THEN DeleteEach([unlinked EXCEPT !.nodes = st.nodes \ {target}],
                             Tail(descs), namespace)
             ELSE [unlinked EXCEPT !.raised = TRUE]

\* for node in to_delete, in the set's iteration order. get_descendants
\* of a node above a parent/child cycle does not return, and the function
\* with it.
RECURSIVE Prune(_, _)
Prune(st, order) ==
    IF order = <<>> \/ st.raised \/ st.diverged THEN st
    ELSE LET node == Head(order)
             descs == get_descendants(st.children, node,
                                      Cardinality(DOMAIN st.parent))
         IN  IF DescendsForever(st.children, node,
                                Cardinality(DOMAIN st.parent) + 1)
             THEN [st EXCEPT !.diverged = TRUE]
             ELSE Prune(DeleteEach(st, descs \o <<node>>,
                                   st.namespace[node]),
                        Tail(order))

\* The function on collection c with namespaces iterated in `order`; the
\* iteration order of the to_delete set is not fixed by the language.
Linked(c, order) == LinkAll(StartAssembly(c), Items(DOMAIN c, order))

AssembleResults(c, order) ==
    LET linked == Linked(c, order)
    IN  {Prune(linked, p) : p \in Perms(linked.to_delete)}

\* _as_node_list: the nodes of every namespace, the root list skipped
as_node_list(st, order) == Items(st.nodes, order)

----------------------------------------------------------------------------
(* Selection marking: MenuRenderer._mark_nodes, _mark_children *)

\* node.is_selected(request): the node is the one the request points at
is_selected(node, request) == node = request.path

\* Decoration fields of the nodes before marking (the class defaults) and
\* the renderer's `selected` attribute.
Unmarked(tree) ==
    [level      |-> [s \in DOMAIN tree.parent |-> -1],
     selected   |-> {},
     sibling    |-> {},
     descendant |-> {},
     ancestor   |-> {},
     renderer_selected |-> [is_list |-> TRUE, items |-> <<>>],
     diverged   |-> FALSE]

Fuel(tree) == Cardinality(DOMAIN tree.parent) + 1

RECURSIVE mark_children(_, _, _, _, _, _)
mark_children(tree, request, m, nodes, level, fuel) ==
    IF nodes = <<>> \/ m.diverged THEN m
    ELSE IF fuel = 0 THEN [m EXCEPT !.diverged = TRUE]
    ELSE
      LET node == Head(nodes)
          m1 == [m EXCEPT !.level = Set(m.level, node, level)]
          m2 == IF is_selected(node, request)
                THEN [m1 EXCEPT
                        !.renderer_selected =
                            [is_list |-> FALSE, items |-> <<node>>],
                        !.sibling = m1.sibling \cup
                            (IF tree.parent[node] # NoNode
                             THEN Range(tree.children[tree.parent[node]])
                             ELSE {}),
                        !.descendant = m1.descendant \cup
                            Range(get_descendants(tree.children, node,
                                                  Fuel(tree))),
                        !.ancestor = m1.ancestor \cup
                            Range(get_ancestors(tree.parent, node,
                                                Fuel(tree))),
                        !.diverged =
                            \/ DescendsForever(tree.children, node,
                                               Fuel(tree))
                            \/ AscendsForever(tree.parent, node,
                                              Fuel(tree))]
                ELSE m1
          m3 == mark_children(tree, request, m2, tree.children[node],
                              level + 1, fuel - 1)
      IN  mark_children(tree, request, m3, Tail(nodes), level, fuel)

RECURSIVE mark_roots(_, _, _, _)
mark_roots(tree, request, m, roots) ==
    IF roots = <<>> \/ m.diverged THEN m
    ELSE
      LET node == Head(roots)
          m1 == [m EXCEPT !.level = Set(m.level, node, 0)]
          m2 == IF is_selected(node, request)
                THEN [m1 EXCEPT
                        !.selected = m1.selected \cup {node},
                        !.renderer_selected =
                            [is_list |-> m1.renderer_selected.is_list,
                             items |-> Append(m1.renderer_selected.items,
                                              node)],
                        !.sibling = m1.sibling \cup Range(tree.root_nodes),
                        !.descendant = m1.descendant \cup
                            Range(get_descendants(tree.children, node,
                                                  Fuel(tree))),
                        !.diverged = DescendsForever(tree.children, node,
                                                     Fuel(tree))]
                ELSE m1
          m3 == IF tree.children[node] # <<>>
                THEN mark_children(tree, request, m2, tree.children[node],
                                   1, Fuel(tree))
                ELSE m2
      IN  mark_roots(tree, request, m3, Tail(roots))

\* _mark_nodes: the decoration it leaves; it returns _as_node_list(nodes)
mark_nodes(tree, request) ==
    mark_roots(tree, request, Unmarked(tree), tree.root_nodes)

----------------------------------------------------------------------------
(* Requests *)

\* request.user.pk of an authenticated user; Anonymous is not authenticated
Anonymous == 0

NoToolbar == [present |-> FALSE, edit_mode_active |-> FALSE,
              preview_mode_active |-> FALSE, is_staff |-> FALSE]

Toolbar(edit, preview, staff) ==
    [present |-> TRUE, edit_mode_active |-> edit,
     preview_mode_active |-> preview, is_staff |-> staff]

\* A request as the renderer sees it: the resolved language, the current
\* site, the user, the toolbar (if any) and the node its path points at.
Request(language, site, user, toolbar, path) ==
    [language |-> language, site |-> site, user |-> user,
     toolbar |-> toolbar, path |-> path]

----------------------------------------------------------------------------
(* MenuPool *)

\* get_cms_setting('CACHE_PREFIX')
CACHE_PREFIX == "cms_"

\* What autodiscover_modules('cms_menus') registers (register_menu) and what
\* menus.modifiers.register() registers (register_modifier).
DiscoveredMenus ==
    [i \in 1..Len(Namespaces) |->
        [name |-> Namespaces[i], attachable |-> FALSE, instances |-> <<>>]]

BuiltinModifiers == <<"Cut">>

Modifiers == {"Cut", "Reverse", "Rotate"}

\* MenuPool.__init__
NewPool == [menus |-> <<>>, modifiers |-> <<>>, discovered |-> FALSE]

\* MenuPool.register_modifier on the modifier list
register_modifier(modifiers, modifier_class) ==
    IF modifier_class \notin Range(modifiers)
    THEN Append(modifiers, modifier_class)
    ELSE modifiers

RECURSIVE register_modifiers(_, _)
register_modifiers(modifiers, classes) ==
    IF classes = <<>> THEN modifiers
    ELSE register_modifiers(register_modifier(modifiers, Head(classes)),
                            Tail(classes))

\* The discovery step of discover_menus (lines after the check of the
\* flag): the cms_menus modules register their menus when they are imported,
\* which happens once per module, the modifiers are registered, the flag is
\* set.
run_discovery(p) ==
    [menus      |-> p.menus \o
                    SelectSeq(DiscoveredMenus,
                              LAMBDA menu :
                                  \A i \in 1..Len(p.menus) :
                                      p.menus[i].name # menu.name),
     modifiers  |-> register_modifiers(p.modifiers, BuiltinModifiers),
     discovered |-> TRUE]

\* MenuPool.discover_menus, run without interruption
discover_menus(p) ==
    IF p.discovered THEN p ELSE run_discovery(p)

\* Classes an application registers with register_menu: a plain menu and
\* two attachable menus with the instances get_instances() reports.
MenuClasses ==
    {[name |-> "P", attachable |-> FALSE, instances |-> <<>>]}
    \cup {[name |-> "T", attachable |-> TRUE, instances |-> ins] :
             ins \in {<<>>, <<1>>, <<1, 2>>}}
    \cup {[name |-> "U", attachable |-> TRUE, instances |-> ins] :
             ins \in {<<>>, <<3>>}}

\* MenuPool.register_menu: NamespaceAlreadyRegistered for a name in use
register_menu(menus, menu_cls) ==
    IF \E i \in 1..Len(menus) : menus[i].name = menu_cls.name
    THEN [raised |-> TRUE, menus |-> menus]
    ELSE [raised |-> FALSE, menus |-> Append(menus, menu_cls)]

\* Mutation of get_registered_menus: an attachable menu without instances
\* is listed under its name whatever for_rendering is.
get_registered_menus_listing_unattached(menus, for_rendering) ==
    Flatten([i \in 1..Len(menus) |->
        LET menu == menus[i]
        IN  IF menu.attachable
            THEN [j \in 1..Len(menu.instances) |->
                     menu.name \o ":" \o ToString(menu.instances[j])]
                 \o (IF menu.instances = <<>>
                     THEN <<menu.name>> ELSE <<>>)
            ELSE <<menu.name>>])

\* MenuPool.get_registered_menus: the namespaces of the returned dict, in
\* insertion order. An attachable menu is expanded to "name:pk" per instance.
get_registered_menus(menus, for_rendering) ==
    Flatten([i \in 1..Len(menus) |->
        LET menu == menus[i]
        IN  IF menu.attachable
            THEN [j \in 1..Len(menu.instances) |->
                     menu.name \o ":" \o ToString(menu.instances[j])]
                 \o (IF menu.instances = <<>> /\ ~for_rendering
                     THEN <<menu.name>> ELSE <<>>)
            ELSE <<menu.name>>])

----------------------------------------------------------------------------
(* MenuRenderer *)

\* MenuRenderer.__init__, after pool.discover_menus()
NewRenderer(p, request) ==
    [menus            |-> get_registered_menus(p.menus, TRUE),
     request          |-> request,
     request_language |-> request.language,
     site             |-> request.site,
     edit_or_preview  |->
        IF request.toolbar.present
        THEN request.toolbar.edit_mode_active
             \/ request.toolbar.preview_mode_active
        ELSE FALSE,
     is_cached        |-> "unset"]

\* Mutation of cache_key: the user segment is left out.
cache_key_without_user(rn) ==
    CACHE_PREFIX \o "menu_nodes_" \o rn.request_language \o "_"
        \o ToString(rn.site)
        \o (IF rn.edit_or_preview THEN ":edit" ELSE ":public")

\* MenuRenderer.cache_key
cache_key(rn) ==
    CACHE_PREFIX \o "menu_nodes_" \o rn.request_language \o "_"
        \o ToString(rn.site)
        \o (IF rn.request.user # Anonymous
            THEN "_" \o ToString(rn.request.user) \o "_user" ELSE "")
        \o (IF rn.edit_or_preview THEN ":edit" ELSE ":public")

\* CacheKey.objects.filter(key=..., language=..., site=...).exists()
db_cache_key_lookup(idx, rn) ==
    [key |-> cache_key(rn), language |-> rn.request_language,
     site |-> rn.site] \in idx

\* Mutation of is_cached: the fast cache entry is trusted without a lookup.
is_cached_trusting(idx, rn) == TRUE

\* MenuRenderer.is_cached (a cached_property): the value kept from the
\* first access if there was one, else the lookup.
is_cached(idx, rn) ==
    IF rn.is_cached = "unset" THEN db_cache_key_lookup(idx, rn)
    ELSE rn.is_cached = "true"

Memo(b) == IF b THEN "true" ELSE "false"

----------------------------------------------------------------------------
(* Stores *)

EmptyMap == [k \in {} |-> 0]

\* cache.set(key, value, ttl)
CacheSet(ch, key, value) ==
    [k \in DOMAIN ch \cup {key} |-> IF k = key THEN value ELSE ch[k]]

\* cache.delete_many(keys)
CacheDeleteMany(ch, keys) ==
    [k \in DOMAIN ch \ keys |-> ch[k]]

\* CacheKey.objects.get_keys(site_id, language): the records matching the
\* filters that are given (NoId / None: not given)
get_keys(idx, site_id, language) ==
    {rec \in idx :
        /\ (site_id = NoId \/ rec.site = site_id)
        /\ (language = None \/ rec.language = language)}

----------------------------------------------------------------------------
(* MenuRenderer._build_nodes *)

\* menu.get_nodes_dict(request, nodes) of the source registered as `menu`:
\* its nodes of collection c, stored under its namespace
SourceNodes(c, menu) == {s \in DOMAIN c : s[1] = menu}

\* Mutation of the source loop: the first NoReverseMatch ends the loop.
CollectedUntilFailure(c, menus, failing) ==
    LET stop == {j \in 1..Len(menus) : menus[j] \in failing}
        upto == IF stop = {} THEN Len(menus) ELSE Min(stop) - 1
        kept == UNION {SourceNodes(c, menus[i]) : i \in 1..upto}
    IN  [s \in kept |-> c[s]]

\* The accumulator after every source of rn.menus was asked; a source in
\* `failing` raises NoReverseMatch, which is caught, and contributes nothing.
CollectNodes(c, menus, failing) ==
    LET kept == UNION {SourceNodes(c, menus[i]) :
                          i \in {j \in 1..Len(menus) : menus[j] \notin failing}}
    IN  [s \in kept |-> c[s]]

\* The outcomes of one call on renderer rn with sources producing c, fast
\* cache ch and index idx: what is returned and what is left behind.
build_nodes(rn, c, ch, idx, failing) ==
    LET key == cache_key(rn)
        cached_nodes == key \in DOMAIN ch
        record == [key |-> key, language |-> rn.request_language,
                   site |-> rn.site]
    IN  IF cached_nodes /\ is_cached(idx, rn)
        THEN {[hit |-> TRUE, raised |-> FALSE, invoked |-> <<>>,
               tree |-> ch[key].tree, cache |-> ch, index |-> idx,
               is_cached |-> "true"]}
        ELSE
          LET seen == IF cached_nodes THEN "false" ELSE rn.is_cached
              \* the renderer as line 197 finds it
              now  == [rn EXCEPT !.is_cached = seen]
          IN  {IF final_nodes.raised
               THEN [hit |-> FALSE, raised |-> TRUE, invoked |-> rn.menus,
                     tree |-> final_nodes, cache |-> ch, index |-> idx,
                     is_cached |-> seen]
               ELSE [hit |-> FALSE, raised |-> FALSE, invoked |-> rn.menus,
                     tree |-> final_nodes,
                     cache |-> CacheSet(ch, key,
                                 [tree |-> final_nodes,
                                  built_for |-> rn.request.user]),
                     index |-> IF ~is_cached(idx, now)
                               THEN idx \cup {record} ELSE idx,
                     is_cached |-> "true"] :
               final_nodes \in
                   AssembleResults(CollectNodes(c, rn.menus, failing),
                                   rn.menus)}

----------------------------------------------------------------------------
(* MenuRenderer.apply_modifiers, get_nodes *)

\* Modifier.modify of the registered modifier classes, on the node sequence
Modify(cls, nodes) ==
    CASE cls = "Cut"     -> IF nodes = <<>> THEN nodes ELSE Tail(nodes)
      [] cls = "Reverse" -> [i \in 1..Len(nodes) |-> nodes[Len(nodes) + 1 - i]]
      [] cls = "Rotate"  -> IF nodes = <<>> THEN nodes
                            ELSE Append(Tail(nodes), Head(nodes))

\* Mutation of apply_modifiers: every modifier is given the original nodes.
RECURSIVE apply_modifiers_unchained(_, _)
apply_modifiers_unchained(modifiers, nodes) ==
    IF modifiers = <<>> THEN <<>>
    ELSE <<[cls |-> Head(modifiers), given |-> nodes,
            returned |-> Modify(Head(modifiers), nodes)]>>
         \o apply_modifiers_unchained(Tail(modifiers), nodes)

\* The calls of modify made by the loop over the registered modifiers, each
\* with the sequence it was given and the one it returned.
RECURSIVE apply_modifiers(_, _)
apply_modifiers(modifiers, nodes) ==
    IF modifiers = <<>> THEN <<>>
    ELSE LET out == Modify(Head(modifiers), nodes)
         IN  <<[cls |-> Head(modifiers), given |-> nodes, returned |-> out]>>
             \o apply_modifiers(Tail(modifiers), out)

\* What apply_modifiers returns
Modified(calls, nodes) ==
    IF calls = <<>> THEN nodes ELSE calls[Len(calls)].returned

----------------------------------------------------------------------------
(* State *)

NoTree == StartAssembly(EmptyMap)

NotAssembled == [called |-> FALSE, out |-> NoTree]

\* The record of the last call: its arguments, what it found and returned.
Blank ==
    [op |-> "none", r |-> 0, key |-> "",
     cached_nodes |-> FALSE,     \* cache.get returned a tree
     in_index |-> FALSE,         \* the index held the record when called
     first_look |-> FALSE,       \* is_cached had no kept value when called
     hit |-> FALSE,              \* the tree came from the fast cache
     raised |-> FALSE, invoked |-> <<>>, failing |-> {},
     tree |-> NoTree, marks |-> Unmarked(NoTree),
     flat |-> <<>>, calls |-> <<>>, result |-> <<>>,
     path |-> NoNode, for_rendering |-> FALSE,
     site_id |-> NoId, language |-> None, all |-> FALSE,
     to_be_deleted |-> {}, modifier |-> ""]

\* No thread is inside discover_menus; the discovery step has not run.
Threads == 1..MaxThreads

NoThreads == [pc |-> [t \in Threads |-> "idle"], runs |-> 0]

InitStores ==
    /\ pool = NewPool
    /\ renderers = <<>>
    /\ cache = EmptyMap
    /\ index = {}
    /\ last = Blank
    /\ nreq = 0
    /\ asm = NotAssembled
    /\ threads = NoThreads

----------------------------------------------------------------------------
(* Operations *)

\* _build_nodes_inner_for_whole_menu(content), called directly
Assemble ==
    /\ ~asm.called
    /\ \E out \in AssembleResults(content, Namespaces) :
          asm' = [called |-> TRUE, out |-> out]
    /\ UNCHANGED <<content, pool, renderers, cache, index, last, nreq, threads>>

\* The assembler on the accumulator filled by sources registered in `order`
\* (the loop of _build_nodes followed by the call of the assembler)
AssembleRegistered(order) ==
    /\ ~asm.called
    /\ \E out \in AssembleResults(content, order) :
          asm' = [called |-> TRUE, out |-> out]
    /\ last' = [Blank EXCEPT !.op = "assemble", !.invoked = order]
    /\ UNCHANGED <<content, pool, renderers, cache, index, nreq, threads>>

\* renderer._mark_nodes(nodes) on the assembled collection, for a request
\* whose path points at `path`
MarkNodes(path) ==
    /\ asm.called /\ ~asm.out.raised /\ ~asm.out.diverged
    /\ last.op = "none"
    /\ last' = [Blank EXCEPT
                  !.op = "mark_nodes", !.path = path, !.tree = asm.out,
                  !.marks = mark_nodes(asm.out, [path |-> path]),
                  !.flat = as_node_list(asm.out, Namespaces)]
    /\ UNCHANGED <<content, asm, pool, renderers, cache, index, nreq, threads>>

\* menu_pool.get_renderer(request)
GetRenderer(request) ==
    /\ nreq < MaxRequests
    /\ nreq' = nreq + 1
    /\ pool' = discover_menus(pool)
    /\ renderers' = Append(renderers, NewRenderer(pool', request))
    /\ last' = [Blank EXCEPT !.op = "get_renderer", !.r = Len(renderers) + 1]
    /\ UNCHANGED <<content, asm, cache, index, threads>>

\* renderer.get_nodes() on renderer r; the sources in `failing` raise
\* NoReverseMatch when asked for their nodes
GetNodes(r, failing) ==
    /\ r \in DOMAIN renderers
    /\ failing \subseteq Range(renderers[r].menus)
    /\ LET rn == renderers[r]
       IN  \E b \in build_nodes(rn, content, cache, index, failing) :
             /\ cache' = b.cache
             /\ index' = b.index
             /\ renderers' = [renderers EXCEPT ![r].is_cached = b.is_cached]
             /\ LET flat  == as_node_list(b.tree, rn.menus)
                    calls == apply_modifiers(pool.modifiers, flat)
                    built == [Blank EXCEPT
                        !.op = "get_nodes", !.r = r, !.key = cache_key(rn),
                        !.cached_nodes = cache_key(rn) \in DOMAIN cache,
                        !.in_index = db_cache_key_lookup(index, rn),
                        !.first_look = rn.is_cached = "unset",
                        !.hit = b.hit, !.raised = b.raised,
                        !.invoked = b.invoked,
                        !.failing = IF b.hit THEN {} ELSE failing,
                        !.tree = b.tree]
                IN  last' = IF b.raised THEN built
                            ELSE [built EXCEPT
                                    !.marks = mark_nodes(b.tree, rn.request),
                                    !.flat = flat, !.calls = calls,
                                    !.result = Modified(calls, flat)]
    /\ UNCHANGED <<content, asm, pool, nreq, threads>>

\* Mutation of the filter of clear: the language is not passed on.
clear_keys_any_language(idx, site_id, language, all) ==
    IF all THEN get_keys(idx, NoId, None)
    ELSE get_keys(idx, site_id, None)

\* The records clear() selects: cache_keys
clear_keys(idx, site_id, language, all) ==
    IF all THEN get_keys(idx, NoId, None)
    ELSE get_keys(idx, site_id, language)

\* menu_pool.clear(site_id, language, all)
Clear(site_id, language, all) ==
    /\ LET cache_keys == clear_keys(index, site_id, language, all)
           to_be_deleted == {rec.key : rec \in cache_keys}
       IN  /\ IF to_be_deleted # {}
              THEN /\ cache' = CacheDeleteMany(cache, to_be_deleted)
                   /\ index' = index \ cache_keys
              ELSE UNCHANGED <<cache, index>>
           /\ last' = [Blank EXCEPT !.op = "clear", !.site_id = site_id,
                          !.language = language, !.all = all,
                          !.to_be_deleted = to_be_deleted]
    /\ UNCHANGED <<content, asm, pool, renderers, nreq, threads>>

\* The fast cache drops an entry whose CACHE_DURATIONS['menus'] ran out.
Expire(key) ==
    /\ key \in DOMAIN cache
    /\ cache' = CacheDeleteMany(cache, {key})
    /\ last' = [Blank EXCEPT !.op = "expire", !.key = key]
    /\ UNCHANGED <<content, asm, pool, renderers, index, nreq, threads>>

\* menu_pool.register_modifier(modifier_class)
RegisterModifier(modifier_class) ==
    /\ pool' = [pool EXCEPT
                  !.modifiers = register_modifier(pool.modifiers,
                                                  modifier_class)]
    /\ last' = [Blank EXCEPT !.op = "register_modifier",
                             !.modifier = modifier_class]
    /\ UNCHANGED <<content, asm, renderers, cache, index, nreq, threads>>

\* menu_pool.register_menu(menu_cls)
RegisterMenu(menu_cls) ==
    /\ LET done == register_menu(pool.menus, menu_cls)
       IN  /\ pool' = [pool EXCEPT !.menus = done.menus]
           /\ last' = [Blank EXCEPT !.op = "register_menu",
                                    !.raised = done.raised]
    /\ UNCHANGED <<content, asm, renderers, cache, index, nreq, threads>>

\* menu_pool.get_registered_menus(for_rendering)
GetRegisteredMenus(for_rendering) ==
    /\ pool' = discover_menus(pool)
    /\ last' = [Blank EXCEPT
                  !.op = "get_registered_menus",
                  !.for_rendering = for_rendering,
                  !.result = get_registered_menus(pool'.menus, for_rendering)]
    /\ UNCHANGED <<content, asm, renderers, cache, index, nreq, threads>>

\* The calls that begin with self.discover_menus()
DiscoveringCalls == {"get_renderer", "get_registered_menus", "discover_menus"}

\* What is left of `call` once discover_menus has returned: get_renderer
\* constructs the renderer, get_registered_menus builds its dict.
Completed(call, p) ==
    /\ renderers' = IF call = "get_renderer"
                    THEN Append(renderers,
                                NewRenderer(p, Request("en", 1, Anonymous,
                                                       NoToolbar, NoNode)))
                    ELSE renderers
    /\ nreq' = IF call = "get_renderer" THEN nreq + 1 ELSE nreq
    /\ last' = [Blank EXCEPT
                  !.op = call,
                  !.result = IF call = "get_registered_menus"
                             THEN get_registered_menus(p.menus, FALSE)
                             ELSE <<>>]

\* Thread t calls `call` and reads the flag (`if self.discovered: return`):
\* when it is set discover_menus returns and the call completes, else the
\* thread goes on to the discovery step.
CheckDiscovered(t, call) ==
    /\ threads.pc[t] = "idle"
    /\ call = "get_renderer" => nreq < MaxRequests
    /\ IF pool.discovered
       THEN /\ Completed(call, pool)
            /\ UNCHANGED <<pool, threads>>
       ELSE /\ threads' = [threads EXCEPT !.pc = Set(threads.pc, t, call)]
            /\ UNCHANGED <<pool, renderers, nreq, last>>
    /\ UNCHANGED <<content, asm, cache, index>>

\* Thread t, past the check, runs the discovery step, sets the flag and
\* completes its call.
RunDiscovery(t) ==
    /\ threads.pc[t] # "idle"
    /\ pool' = run_discovery(pool)
    /\ threads' = [pc   |-> Set(threads.pc, t, "idle"),
                   runs |-> threads.runs + 1]
    /\ Completed(threads.pc[t], pool')
    /\ UNCHANGED <<content, asm, cache, index>>

----------------------------------------------------------------------------
(* The assembler on every bounded input collection *)

InitAsm ==
    /\ BoundedCollection(content)
    /\ InitStores

NextAsm == Assemble

SpecAsm == InitAsm /\ [][NextAsm]_vars

----------------------------------------------------------------------------
(* The assembler under both registration orders *)

Reversed(s) == [i \in 1..Len(s) |-> s[Len(s) + 1 - i]]

\* A collection of at most MaxNodes nodes with parent ids of the id range,
\* at most MaxExplicit of them carrying the namespace of the other source
\* (parent_namespace is never read by the assembler and is left unset).
InitForest ==
    /\ \E D \in SUBSET Slots :
          /\ Cardinality(D) <= MaxNodes
          /\ \E E \in SUBSET D :
                /\ Cardinality(E) <= MaxExplicit
                /\ \E f \in [D \ E -> {NavigationNode(None, pid, None) :
                                          pid \in 0..MaxId}],
                      g \in [E -> {NavigationNode(ns, pid, None) :
                                      ns \in NamespaceSet,
                                      pid \in 0..MaxId}] :
                      /\ \A s \in E : g[s].namespace # s[1]
                      /\ content = Merge(f, g)
    /\ InitStores

NextForest ==
    \E order \in {Namespaces, Reversed(Namespaces)} :
        AssembleRegistered(order)

SpecForest == InitForest /\ [][NextForest]_vars

----------------------------------------------------------------------------
(* The cache protocol: requests, builds, invalidation, expiry *)

Languages == {"en", "de"}
Sites == {1, 2}
Users == {1, 2}

\* What the sources produce while the site is served: source A a root with
\* a child, source B a root.
SiteContent ==
    [s \in {<<"A", 1>>, <<"A", 2>>, <<"B", 1>>} |->
        NavigationNode(None, IF s = <<"A", 2>> THEN 1 ELSE NoId, None)]

\* The requests served: anonymous visitors of site 1 in two languages and of
\* site 2, and one signed-in user of site 1; all for the page of node A/2.
SiteRequests ==
    {Request("en", 1, Anonymous, NoToolbar, <<"A", 2>>),
     Request("en", 1, 1, NoToolbar, <<"A", 2>>),
     Request("de", 1, Anonymous, NoToolbar, <<"A", 2>>),
     Request("en", 2, Anonymous, NoToolbar, <<"A", 2>>)}

Init ==
    /\ content = SiteContent
    /\ InitStores

Next ==
    \/ \E request \in SiteRequests : GetRenderer(request)
    \/ \E r \in DOMAIN renderers, failing \in {{}, {"A"}} :
          GetNodes(r, failing)
    \/ \E site_id \in Sites, language \in Languages :
          Clear(site_id, language, FALSE)
    \/ Clear(NoId, None, TRUE)
    \/ \E key \in DOMAIN cache : Expire(key)

Spec == Init /\ [][Next]_vars

----------------------------------------------------------------------------
(* The cache key over requests of every kind *)

Toolbars ==
    {NoToolbar, Toolbar(TRUE, FALSE, TRUE), Toolbar(FALSE, TRUE, FALSE)}

\* Site 1 in both languages and site 2 in English.
KeyContexts == {<<"en", 1>>, <<"de", 1>>, <<"en", 2>>}

KeyRequests ==
    {Request(c[1], c[2], u, tb, <<"A", 2>>) :
        c \in KeyContexts, u \in {Anonymous} \cup Users, tb \in Toolbars}

NextKey ==
    \/ \E request \in KeyRequests : GetRenderer(request)
    \/ \E r \in DOMAIN renderers : GetNodes(r, {})

SpecKey == Init /\ [][NextKey]_vars

----------------------------------------------------------------------------
(* Selection marking over the forests assembled from bounded collections *)

\* A collection of at most MaxNodes nodes without explicit namespaces whose
\* parent ids are ids of the namespace range.
InitMark ==
    /\ \E D \in SUBSET Slots :
          /\ Cardinality(D) <= MaxNodes
          /\ content \in [D -> {NavigationNode(None, pid, None) :
                                   pid \in 0..MaxId}]
    /\ InitStores

NextMark ==
    \/ Assemble
    \/ \E path \in Slots : MarkNodes(path)

SpecMark == InitMark /\ [][NextMark]_vars

\* The same over the collections that hold nodes carrying the namespace of
\* the other source.
SpecMarkForest == InitForest /\ [][NextMark]_vars

----------------------------------------------------------------------------
(* Modifier registration and get_nodes *)

NextMod ==
    \/ \E modifier_class \in Modifiers : RegisterModifier(modifier_class)
    \/ GetRenderer(Request("en", 1, Anonymous, NoToolbar, <<"A", 2>>))
    \/ \E r \in DOMAIN renderers : GetNodes(r, {})

SpecMod == Init /\ [][NextMod]_vars

----------------------------------------------------------------------------
(* The registry of menus *)

NextMenus ==
    \/ \E menu_cls \in MenuClasses : RegisterMenu(menu_cls)
    \/ \E for_rendering \in BOOLEAN : GetRegisteredMenus(for_rendering)

SpecMenus == Init /\ [][NextMenus]_vars

----------------------------------------------------------------------------
(* Discovery from several threads *)

NextDiscover ==
    \/ \E t \in Threads : \E call \in DiscoveringCalls :
          CheckDiscovered(t, call)
    \/ \E t \in Threads : RunDiscovery(t)
    \/ \E menu_cls \in MenuClasses : RegisterMenu(menu_cls)

SpecDiscover == Init /\ [][NextDiscover]_vars

----------------------------------------------------------------------------
(* Properties of the assembler *)

\* The slot the parent of the input node at s is looked for.
ResolvedParent(c, s) == <<Or(c[s].namespace, s[1]), c[s].parent_id>>

\* The input node at s declares a parent that its resolved namespace lacks.
DeclaresMissingParent(c, s) ==
    c[s].parent_id # NoId /\ ResolvedParent(c, s) \notin DOMAIN c

\* The nodes of c below the nodes of S: those whose parent resolves to a
\* node of S, and so on.
RECURSIVE Below(_, _)
Below(c, S) ==
    LET more == {t \in DOMAIN c : ResolvedParent(c, t) \in S} \ S
    IN  IF more = {} THEN S ELSE Below(c, S \cup more)

InOutput(out, s) == s \in out.nodes \/ s \in Range(out.root_nodes)

\* The end of the parent chain of s (s itself when it has no parent).
RECURSIVE ChainEnd(_, _, _)
ChainEnd(parent, s, fuel) ==
    IF parent[s] = NoNode \/ fuel = 0 THEN s
    ELSE ChainEnd(parent, parent[s], fuel - 1)

Returned == asm.called /\ ~asm.out.raised

\* C1 (as claimed): in the assembled output of any input collection, a node
\* whose parent id is not present in the namespace it is resolved in is
\* absent from the namespace-keyed collection and from the root list, and so
\* is every node of its subtree.
C1_OrphanSubtreesAbsent ==
    Returned =>
        \A s \in DOMAIN content :
            DeclaresMissingParent(content, s) =>
                \A d \in Below(content, {s}) : ~InOutput(asm.out, d)

\* The same for the collections in which every node is stored under its own
\* namespace: there it holds.
OrphanSubtreesAbsentWhenStoredUnderOwnNamespace ==
    (asm.called /\ StoredUnderOwnNamespace(content)) =>
        /\ ~asm.out.raised
        /\ \A s \in DOMAIN content :
            DeclaresMissingParent(content, s) =>
                \A d \in Below(content, {s}) : ~InOutput(asm.out, d)

\* A three-level chain below a missing parent was assembled.
OrphanChainAssembled ==
    /\ Returned /\ StoredUnderOwnNamespace(content)
    /\ \E s \in DOMAIN content :
          /\ DeclaresMissingParent(content, s)
          /\ Cardinality(Below(content, {s})) = 3

\* C2 (as claimed): after assembly of any input collection, every node that
\* remains in the namespace-keyed collection has an acyclic parent chain that
\* ends at a member of the root list, and no remaining node has a parent id
\* set while its parent back-reference is unset.
C2_ParentChainsEndAtRoots ==
    Returned =>
        \A s \in asm.out.nodes :
            /\ ~AscendsForever(asm.out.parent, s, Fuel(asm.out))
            /\ ChainEnd(asm.out.parent, s, Fuel(asm.out))
                  \in Range(asm.out.root_nodes)
            /\ (asm.out.parent_id[s] # NoId => asm.out.parent[s] # NoNode)

\* The namespace the parent of the input node at s is to be looked up in
\* as the specification has it: the explicit parent namespace, else the
\* node's own namespace, else the namespace it was discovered under.
EffectiveParentNamespace(c, s) ==
    Or(c[s].parent_namespace, Or(c[s].namespace, s[1]))

\* C11 (as claimed): a node with an explicit parent namespace whose parent id
\* is the id of a root of that namespace is linked as a child of that root
\* and stays in the output.
C11_ParentLookedUpInParentNamespace ==
    Returned =>
        \A s \in DOMAIN content :
            LET target == <<EffectiveParentNamespace(content, s),
                            content[s].parent_id>>
            IN  (/\ content[s].parent_namespace # None
                 /\ content[s].parent_id # NoId
                 /\ target \in DOMAIN content
                 /\ target # s
                 /\ content[target].parent_id = NoId) =>
                    /\ asm.out.parent[s] = target
                    /\ s \in Range(asm.out.children[target])
                    /\ s \in asm.out.nodes

\* The input node at s names itself as its parent.
ResolvesToItself(c, s) ==
    c[s].parent_id # NoId /\ ResolvedParent(c, s) = s

\* The input node at s has a parent id and the namespace its parent is
\* looked up in holds no node.
ResolvesToMissingNamespace(c, s) ==
    /\ c[s].parent_id # NoId
    /\ \A t \in DOMAIN c : t[1] # ResolvedParent(c, s)[1]

\* C13 (as claimed): a node whose parent id resolves to the node itself, or
\* whose parent is looked up in a namespace the collection does not have, is
\* not in the root list and is removed from the collection with its
\* descendants.
C13_SelfAndMissingNamespaceOrphaned ==
    Returned =>
        \A s \in DOMAIN content :
            (ResolvesToItself(content, s)
             \/ ResolvesToMissingNamespace(content, s)) =>
                \A d \in Below(content, {s}) : ~InOutput(asm.out, d)

\* C14 (as claimed): the assembler returns a collection with a root list for
\* every input collection; it never raises.
C14_AssemblyNeverRaises ==
    asm.called => ~asm.out.raised

\* The input node at s was discovered without a namespace of its own and
\* has a parent id.
ImplicitChild(c, s) == c[s].namespace = None /\ c[s].parent_id # NoId

\* C12 (as claimed): a node b1 of one namespace without explicit namespace
\* whose parent id is the id of a root a1 of the other namespace becomes a
\* child of a1: its parent is a1, it is in a1's child list and it is not
\* pruned.
C12_ImplicitNamespaceFallback ==
    Returned =>
        \A a1 \in DOMAIN content : \A b1 \in DOMAIN content :
            (/\ a1[1] # b1[1]
             /\ content[a1].parent_id = NoId
             /\ ImplicitChild(content, b1)
             /\ content[b1].parent_id = a1[2]) =>
                /\ asm.out.parent[b1] = a1
                /\ b1 \in Range(asm.out.children[a1])
                /\ b1 \in asm.out.nodes

\* C12 (amended): the parent id of a node without explicit namespace is
\* looked up in the namespace the node was discovered under only. The node
\* never becomes the child of a node of another namespace; it is the child
\* of the node with that id in its own namespace or, when there is none, is
\* neither a root nor left in the collection.
C12_ImplicitNamespaceIsOwnNamespace ==
    Returned =>
        \A b1 \in DOMAIN content :
            ImplicitChild(content, b1) =>
                /\ asm.out.parent[b1]
                      \in {NoNode, <<b1[1], content[b1].parent_id>>}
                /\ \A a1 \in DOMAIN content :
                      b1 \in Range(asm.out.children[a1]) =>
                          a1 = <<b1[1], content[b1].parent_id>>
                /\ <<b1[1], content[b1].parent_id>> \notin DOMAIN content
                      => ~InOutput(asm.out, b1)

\* The case of the claim was assembled: the root a1 of one namespace, and in
\* the other namespace b1 with a1's id as parent id and no node of that id;
\* b1 is gone and a1 has no child.
C12_CrossNamespaceChildPruned ==
    /\ Returned
    /\ \E a1 \in DOMAIN content : \E b1 \in DOMAIN content :
          /\ a1[1] # b1[1]
          /\ content[a1].parent_id = NoId
          /\ ImplicitChild(content, b1)
          /\ content[b1].parent_id = a1[2]
          /\ <<b1[1], a1[2]>> \notin DOMAIN content
          /\ b1 \notin asm.out.nodes
          /\ asm.out.children[a1] = <<>>

\* The place of namespace ns in the registration order.
Place(order, ns) == CHOOSE i \in 1..Len(order) : order[i] = ns

\* roots lists every node without parent id once, sources in registration
\* order and the nodes of one source in the order it produced them.
RootsInRegistrationOrder(c, order, roots) ==
    /\ Range(roots) = {s \in DOMAIN c : c[s].parent_id = NoId}
    /\ \A i \in 1..Len(roots) : \A j \in 1..Len(roots) :
          i < j =>
              \/ Place(order, roots[i][1]) < Place(order, roots[j][1])
              \/ /\ roots[i][1] = roots[j][1]
                 /\ roots[i][2] < roots[j][2]

\* C15: the root list holds exactly the nodes without parent id, each once,
\* in source-registration order and within a source in the order it produced
\* them, whichever of the two registration orders is used; and whatever the
\* iteration order of the to-delete set, the same input and registration
\* order give the same nodes, parent/child wiring and root list.
C15_RootsInRegistrationOrder ==
    (last.op = "assemble" /\ ~asm.out.raised) =>
        /\ RootsInRegistrationOrder(content, last.invoked,
                                    asm.out.root_nodes)
        /\ \A out \in AssembleResults(content, last.invoked) :
              /\ ~out.raised
              /\ out.nodes = asm.out.nodes
              /\ out.parent = asm.out.parent
              /\ out.children = asm.out.children
              /\ out.root_nodes = asm.out.root_nodes

\* Sources registered in the order [B, A] were assembled with roots from
\* both and two orphans to prune.
C15_ReversedOrderAssembled ==
    /\ last.op = "assemble" /\ ~asm.out.raised
    /\ last.invoked = Reversed(Namespaces)
    /\ Len(asm.out.root_nodes) >= 2
    /\ asm.out.root_nodes[1][1] = "B"
    /\ asm.out.root_nodes[Len(asm.out.root_nodes)][1] = "A"

----------------------------------------------------------------------------
(* Properties of the cache protocol *)

Built == last.op = "get_nodes" /\ ~last.raised

\* The index record of the key the last call computed
LastRecord ==
    [key |-> last.key, language |-> renderers[last.r].request_language,
     site |-> renderers[last.r].site]

\* C3 (as claimed): whenever _build_nodes returns the tree taken from the
\* fast cache, an index record with the same key, language and site exists
\* in the persisted index at that moment, on every call of a renderer.
C3_CacheHitsAreIndexed ==
    (Built /\ last.hit) => LastRecord \in index

\* C4: with the fast cache entry and the index record of key K both in
\* place, a request with that key gets the stored forest and no source is
\* asked; with the entry in place and the record deleted, the next request
\* (a renderer that has not looked at the index yet) asks every source and
\* rebuilds.
C4_CacheRoundTrip ==
    Built =>
        /\ (last.cached_nodes /\ last.in_index) =>
              /\ last.hit
              /\ last.invoked = <<>>
              /\ last.tree = cache[last.key].tree
        /\ (last.cached_nodes /\ ~last.in_index /\ last.first_look) =>
              /\ ~last.hit
              /\ last.invoked = renderers[last.r].menus
              /\ LastRecord \in index

\* A fresh renderer found the fast cache entry without its index record and
\* rebuilt.
C4_RebuiltWithoutRecord ==
    /\ Built /\ last.cached_nodes /\ ~last.in_index /\ last.first_look
    /\ ~last.hit /\ last.invoked # <<>>

\* C5 (as claimed): whenever a call of _build_nodes recomputes the tree and
\* returns, the fast cache entry of its key holds the recomputed forest and
\* the index holds a record with that key, language and site.
C5_RebuildWritesEntryAndRecord ==
    (Built /\ ~last.hit) =>
        /\ last.key \in DOMAIN cache
        /\ cache[last.key].tree = last.tree
        /\ LastRecord \in index

\* C6: clear(site=S, language=L) deletes every index record of site S and
\* language L and the fast cache entries under their keys, and leaves every
\* other index record and the fast cache entry under its key as they were.
C6_ClearDeletesOnlyMatching ==
    [][(last'.op = "clear" /\ ~last'.all) =>
        LET Matches(rec) == rec.site = last'.site_id
                            /\ rec.language = last'.language
        IN  /\ index' = {rec \in index : ~Matches(rec)}
            /\ \A rec \in index :
                  IF Matches(rec)
                  THEN rec.key \notin DOMAIN cache'
                  ELSE /\ (rec.key \in DOMAIN cache') = (rec.key \in DOMAIN cache)
                       /\ rec.key \in DOMAIN cache =>
                             cache'[rec.key] = cache[rec.key]]_vars

\* A clear deleted records and their entries and left another record with
\* its entry.
C6_ClearedSomeKeptSome ==
    /\ last.op = "clear" /\ ~last.all
    /\ last.to_be_deleted # {}
    /\ \E rec \in index : rec.key \in DOMAIN cache

\* C8: when a source raises NoReverseMatch during a build, the build raises
\* nothing, every registered source is still asked in order, and the nodes
\* of the other sources are in the assembled forest.
C8_FailingSourceIsSkipped ==
    (last.op = "get_nodes" /\ ~last.hit /\ last.failing # {}) =>
        /\ ~last.raised
        /\ last.invoked = renderers[last.r].menus
        /\ \A s \in DOMAIN content :
              (s[1] \in Range(renderers[last.r].menus) \ last.failing) =>
                  /\ s \in last.tree.nodes
                  /\ (content[s].parent_id = NoId =>
                         s \in Range(last.tree.root_nodes))

\* The first source failed and the nodes of the second are in the forest.
C8_BuiltWithoutFirstSource ==
    /\ Built /\ ~last.hit /\ last.failing = {"A"}
    /\ <<"B", 1>> \in last.tree.nodes

\* The clear that just ran covers the site and language of renderer rn.
Covers(rn) ==
    last.all \/ (rn.site = last.site_id /\ rn.request_language = last.language)

\* C18 (as claimed): after a clear covering (S, L) has run, nothing of what
\* the builds completed before it left for a key K of (S, L) remains: no
\* index record for K and no fast cache entry under K.
C18_ClearRemovesWhatBuildsLeft ==
    last.op = "clear" =>
        \A r \in DOMAIN renderers :
            Covers(renderers[r]) =>
                /\ cache_key(renderers[r]) \notin DOMAIN cache
                /\ \A rec \in index : rec.key # cache_key(renderers[r])

\* C19 (as claimed): a build in which a source raised NoReverseMatch writes
\* its forest to the fast cache and creates the index record, and a request
\* that finds the entry and the record gets that forest from the cache
\* without any source being asked.
C19_PartialForestCachedAndIndexed ==
    /\ (Built /\ ~last.hit /\ last.failing # {}) =>
          /\ last.key \in DOMAIN cache
          /\ cache[last.key].tree = last.tree
          /\ LastRecord \in index
    /\ (Built /\ last.cached_nodes /\ last.in_index) =>
          /\ last.hit /\ last.invoked = <<>>
          /\ last.tree = cache[last.key].tree

\* What holds of it: the partial forest is written to the fast cache, and
\* the record is there too when the renderer had not looked at the index
\* before the call.
PartialForestCached ==
    (Built /\ ~last.hit /\ last.failing # {}) =>
        /\ last.key \in DOMAIN cache
        /\ cache[last.key].tree = last.tree
        /\ last.first_look => LastRecord \in index

\* C7: two renderers whose requests agree on language, site, user and
\* edit-or-preview mode have the same cache key, two renderers whose requests
\* have different users (or one a user and one none) have different keys,
\* and a tree a request gets from the cache was stored by a build for the
\* same user.
SameKeyContext(a, b) ==
    /\ a.request_language = b.request_language
    /\ a.site = b.site
    /\ a.request.user = b.request.user
    /\ a.edit_or_preview = b.edit_or_preview

C7_CacheKeySeparatesUsers ==
    /\ \A r1 \in DOMAIN renderers : \A r2 \in DOMAIN renderers :
          LET a == renderers[r1]
              b == renderers[r2]
          IN  /\ SameKeyContext(a, b) => cache_key(a) = cache_key(b)
              /\ a.request.user # b.request.user
                    => cache_key(a) # cache_key(b)
    /\ (Built /\ last.hit) =>
          cache[last.key].built_for = renderers[last.r].request.user

\* A request was served from the cache while the cache held the tree of
\* another user for the same language, site and mode.
C7_HitBesideAnotherUsersEntry ==
    /\ Built /\ last.hit
    /\ \E r \in DOMAIN renderers :
          LET a == renderers[last.r]
              b == renderers[r]
          IN  /\ a.request_language = b.request_language
              /\ a.site = b.site
              /\ a.edit_or_preview = b.edit_or_preview
              /\ a.request.user # b.request.user
              /\ cache_key(b) \in DOMAIN cache

----------------------------------------------------------------------------
(* Properties of selection marking *)

Marked == last.op = "mark_nodes"

\* The nodes on the parent chain of s.
RECURSIVE ChainAbove(_, _, _)
ChainAbove(parent, s, fuel) ==
    IF parent[s] = NoNode \/ fuel = 0 THEN {}
    ELSE {parent[s]} \cup ChainAbove(parent, parent[s], fuel - 1)

\* s is a node of a tree below a root of the forest.
InForest(tree, s) ==
    /\ s \in tree.nodes
    /\ ~AscendsForever(tree.parent, s, Fuel(tree))
    /\ ChainEnd(tree.parent, s, Fuel(tree)) \in Range(tree.root_nodes)

AncestorsOf(tree, s) == ChainAbove(tree.parent, s, Fuel(tree))

DescendantsOf(tree, s) ==
    {d \in tree.nodes : s \in ChainAbove(tree.parent, d, Fuel(tree))}

\* The other nodes with the parent of s; the other roots when s is a root.
SiblingsOf(tree, s) ==
    {n \in tree.nodes \ {s} :
        InForest(tree, n) /\ tree.parent[n] = tree.parent[s]}

RelatedTo(tree, s) ==
    {s} \cup AncestorsOf(tree, s) \cup SiblingsOf(tree, s)
        \cup DescendantsOf(tree, s)

Flagged(m) == m.selected \cup m.sibling \cup m.descendant \cup m.ancestor

\* C9 (as claimed): after marking a forest in which the request selects one
\* node, at any depth, that node is flagged selected, each of its ancestors
\* is flagged ancestor, each node with the same parent (each other root when
\* it is a root) is flagged sibling, each node of its subtree is flagged
\* descendant, and the nodes that are none of these carry none of the four
\* flags.
C9_SelectionMarked ==
    (Marked /\ InForest(last.tree, last.path)) =>
        /\ last.path \in last.marks.selected
        /\ AncestorsOf(last.tree, last.path) \subseteq last.marks.ancestor
        /\ SiblingsOf(last.tree, last.path) \subseteq last.marks.sibling
        /\ DescendantsOf(last.tree, last.path)
              \subseteq last.marks.descendant
        /\ \A n \in last.tree.nodes \ RelatedTo(last.tree, last.path) :
              n \notin Flagged(last.marks)

\* What holds of the marking: the selected flag is set on a selected root,
\* and the other three flags are set as described at any depth.
SelectionMarkedApartFromSelectedFlag ==
    (Marked /\ InForest(last.tree, last.path)) =>
        /\ last.tree.parent[last.path] = NoNode
              => last.path \in last.marks.selected
        /\ last.marks.renderer_selected.items = <<last.path>>
        /\ AncestorsOf(last.tree, last.path) \subseteq last.marks.ancestor
        /\ SiblingsOf(last.tree, last.path) \subseteq last.marks.sibling
        /\ DescendantsOf(last.tree, last.path)
              \subseteq last.marks.descendant
        /\ \A n \in last.tree.nodes \ RelatedTo(last.tree, last.path) :
              n \notin Flagged(last.marks)

\* A selected grandchild with a sibling was marked.
SelectedGrandchildMarked ==
    /\ Marked /\ InForest(last.tree, last.path)
    /\ Cardinality(AncestorsOf(last.tree, last.path)) = 2

\* C20: for every input collection, with self-parent and mutually-parent
\* cycles among them, the assembler and the marking that follows return: the
\* traversals of pruning (the descendants of the orphaned nodes) and of
\* marking (down from the roots, and up from the selected node) meet no
\* parent/child cycle.
C20_AssemblyAndMarkingTerminate ==
    /\ asm.called => ~asm.out.diverged
    /\ Marked => ~last.marks.diverged

\* A forest was marked that holds a node on a parent cycle beside a root
\* whose child is selected.
C20_MarkedBesideCycle ==
    /\ Marked
    /\ InForest(last.tree, last.path)
    /\ last.tree.parent[last.path] # NoNode
    /\ \E s \in last.tree.nodes :
          AscendsForever(last.tree.parent, s, Fuel(last.tree))

----------------------------------------------------------------------------
(* Properties of the registry *)

\* The keys get_registered_menus is to return for one registered menu.
KeysOf(menu, for_rendering) ==
    IF ~menu.attachable THEN {menu.name}
    ELSE IF menu.instances # <<>>
    THEN {menu.name \o ":" \o ToString(menu.instances[j]) :
             j \in 1..Len(menu.instances)}
    ELSE IF for_rendering THEN {} ELSE {menu.name}

\* C16: get_registered_menus(for_rendering) returns for an attachable menu
\* with n >= 1 instances exactly the n entries "name:instance id" and none
\* under the bare name, for an attachable menu without instances one entry
\* under the bare name when for_rendering is false and none when it is
\* true, and for a plain menu one entry under its name; nothing else.
C16_RegisteredMenusListed ==
    last.op = "get_registered_menus" =>
        /\ Range(last.result) =
              UNION {KeysOf(pool.menus[i], last.for_rendering) :
                        i \in 1..Len(pool.menus)}
        /\ NoDuplicates(last.result)
        /\ \A i \in 1..Len(pool.menus) :
              LET menu == pool.menus[i]
                  n    == Len(menu.instances)
              IN  (menu.attachable /\ n >= 1) =>
                      /\ menu.name \notin Range(last.result)
                      /\ Cardinality(KeysOf(menu, last.for_rendering)
                                         \cap Range(last.result)) = n

\* The menus were listed for rendering with an attachable menu of two
\* instances and one without instances registered.
C16_ListedForRendering ==
    /\ last.op = "get_registered_menus" /\ last.for_rendering
    /\ \E i \in 1..Len(pool.menus) :
          pool.menus[i].attachable /\ Len(pool.menus[i].instances) = 2
    /\ \E i \in 1..Len(pool.menus) :
          /\ pool.menus[i].attachable /\ pool.menus[i].instances = <<>>
          /\ pool.menus[i].name \notin Range(last.result)

\* C17 (as claimed): whatever the interleaving of the calls that trigger
\* discovery from the threads, the discovery step (autodiscovery and modifier
\* registration) runs at most once per pool.
C17_DiscoveryAtMostOnce ==
    threads.runs <= 1

\* A call made once the flag is set leaves the registry as it is.
CallsAfterDiscoveryKeepRegistry ==
    [][(pool.discovered /\ last'.op \in DiscoveringCalls
        /\ threads' = threads) => pool' = pool]_vars

----------------------------------------------------------------------------
(* Properties of the modifiers *)

\* get_nodes called modify once per registered modifier, in the order of
\* the list, the first on the flattened marked sequence, each next one on
\* what the one before returned, and returned what the last one returned.
ModifiersChained ==
    Built =>
        /\ [i \in 1..Len(last.calls) |-> last.calls[i].cls] = pool.modifiers
        /\ last.flat = as_node_list(last.tree, renderers[last.r].menus)
        /\ \A i \in 1..Len(last.calls) :
              /\ last.calls[i].given =
                    (IF i = 1 THEN last.flat ELSE last.calls[i - 1].returned)
              /\ last.calls[i].returned =
                    Modify(last.calls[i].cls, last.calls[i].given)
        /\ last.result = (IF last.calls = <<>> THEN last.flat
                          ELSE last.calls[Len(last.calls)].returned)

\* A step keeps the registered modifiers in their places, and a call of
\* register_modifier appends its argument when it is not in the list and
\* changes nothing when it is.
RegistrationKeepsFirstOrder ==
    /\ Len(pool'.modifiers) >= Len(pool.modifiers)
    /\ SubSeq(pool'.modifiers, 1, Len(pool.modifiers)) = pool.modifiers
    /\ last'.op = "register_modifier" =>
          pool'.modifiers =
              (IF last'.modifier \in Range(pool.modifiers)
               THEN pool.modifiers
               ELSE Append(pool.modifiers, last'.modifier))

\* C10: get_nodes applies every registered modifier exactly once, in the
\* order of first registration, each on the output of the one before and the
\* first on the flattened marked sequence; the list never holds a modifier
\* twice, and registering a modifier that is in the list changes nothing.
C10_ModifiersOnceInRegistrationOrder ==
    /\ [](NoDuplicates(pool.modifiers) /\ ModifiersChained)
    /\ [][RegistrationKeepsFirstOrder]_vars

\* get_nodes ran three registered modifiers and returned a sequence that is
\* not the one it marked.
C10_ThreeModifiersApplied ==
    /\ Built
    /\ Len(last.calls) = 3
    /\ last.result # last.flat
    /\ last.calls[2].given # last.flat

====
